---- MODULE Spec2Model ----
(***************************************************************************)
(* Model of src/server.py: the photo-archive streaming server.            *)
(*                                                                         *)
(* One request is one run of the coroutine `archive` (the Stream Relay),   *)
(* which drives the async generator `create_archive_in_chunks` (the        *)
(* Archive Producer), which owns one `zip` child process.  The model       *)
(* follows asyncio's cooperative scheduling: a step of the handler is the  *)
(* code between two suspension points, and the child process, the event    *)
(* loop's pipe callbacks and the cancellation of the task interleave with  *)
(* those steps.                                                            *)
(*                                                                         *)
(* Bytes of the child's standard output are numbered 1, 2, 3, ... so that  *)
(* loss, duplication and reordering are visible.                           *)
(***************************************************************************)
EXTENDS Integers, Sequences, FiniteSets, TLC

\* ------------------------------------------------------------------ bounds
\* the most bytes a child process writes to its standard output
MaxBytes == 2
\* the most chunks the producer's loop is followed for (the loop itself has
\* no such limit)
MaxChunks == 2
\* the most unread bytes the child's stderr holds (the OS pipe plus the
\* StreamReader buffer up to its limit) before a further write blocks
StderrCapacity == 1

\* read size of the producer, chunk_kb_size * 1024 in the source, scaled
chunk_size == 2

\* the requests the server handles
Requests == {"r1", "r2"}

\* ------------------------------------------------------------------ inputs
\* archive takes its request as a parameter and only uses
\* request.match_info.get[...]; what happens at line 38 depends on what that
\* attribute is for the object it is handed:
\*   "bound_method"  - aiohttp's UrlMappingMatchInfo (a dict), which is what
\*                     the router of lines 110-119 passes: get is a method,
\*                     and subscripting a method raises TypeError
\*   "mapping"       - an object whose get supports [..] and has the key
\*   "mapping_nokey" - such an object without the key: KeyError
MatchInfoKinds == {"bound_method", "mapping", "mapping_nokey"}

\* exceptions response.write may raise into the consumer loop body
WriteFaults ==
    {"IndexError", "SystemExit", "ClientConnectionResetError", "ClientError",
     "ConnectionResetError"}

\* exit codes of a child that ends by itself (0 success, 12 zip's "nothing to do")
ExitCodes == {0, 12}

VARIABLES
    match_info,   \* per request: kind of request.match_info.get
    dir_exists,   \* per request: os.path.exists(folder_path) at request time
    pc,           \* per request: position of the coroutine archive
    gen,          \* per request: position of the generator create_archive_in_chunks
    gexc,         \* per request: exception in flight inside the generator
    proc,         \* per request: the child process: none, running, killed, exited
    returncode,   \* per request: process.returncode: None, or <<code>> once the exit is seen
    produced,     \* per request: bytes the child has written to stdout so far
    buffer,       \* per request: process.stdout's StreamReader buffer
    eof,          \* per request: process.stdout's StreamReader got feed_eof
    chunk,        \* per request: the loop variable chunk
    chunksRead,   \* per request: chunks the generator has yielded, in order
    written,      \* per request: chunks response.write has accepted, in order
    prepared,     \* per request: response.prepare has committed the headers
    cancelAt,     \* per request: where the task's cancellation was delivered
    outcome,      \* per request: how archive ended
    stderr_fill,  \* per request: unread bytes the child has written to stderr
    stderr_blocked, \* per request: the child is blocked in a write to stderr
    spawns,       \* per request: child processes created by the generator
    kills,        \* per request: calls of process.kill()
    cleanups,     \* per request: runs of the finally block of lines 31-34
    sleeps        \* per request: pacing sleeps of line 52 that completed

vars ==
    <<match_info, dir_exists, pc, gen, gexc, proc, returncode, produced,
      buffer, eof, chunk, chunksRead, written, prepared, cancelAt, outcome,
      stderr_fill, stderr_blocked, spawns, kills, cleanups, sleeps>>

stderrVars == <<stderr_fill, stderr_blocked>>
procVars == <<proc, returncode, produced, buffer, eof, stderrVars>>
counters == <<spawns, kills, cleanups, sleeps>>
inputVars == <<match_info, dir_exists>>

\* ----------------------------------------------------------------- helpers
\* process.returncode before the exit is seen
None == <<>>

NoOutcome == [raised |-> "none", via |-> "none"]

\* Python's exception hierarchy, as far as the except clauses tell classes apart
Bases(e) ==
    CASE e = "IndexError" -> {"IndexError", "LookupError", "Exception", "BaseException"}
      [] e = "KeyError" -> {"KeyError", "LookupError", "Exception", "BaseException"}
      [] e = "TypeError" -> {"TypeError", "Exception", "BaseException"}
      [] e = "CancelledError" -> {"CancelledError", "BaseException"}
      [] e = "SystemExit" -> {"SystemExit", "BaseException"}
      [] e = "ClientConnectionResetError" ->
            {"ClientConnectionResetError", "ClientConnectionError", "ClientError",
             "ConnectionResetError", "OSError", "Exception", "BaseException"}
      [] e = "ClientError" -> {"ClientError", "Exception", "BaseException"}
      [] e = "ConnectionResetError" ->
            {"ConnectionResetError", "OSError", "Exception", "BaseException"}
      [] OTHER -> {e, "BaseException"}

\* the except clauses of archive, in their order
Classify(e) ==
    IF "IndexError" \in Bases(e)
    THEN [raised |-> "HTTPBadRequest", via |-> "IndexError"]
    ELSE IF "CancelledError" \in Bases(e)
    THEN [raised |-> "HTTPInternalServerError", via |-> "CancelledError"]
    ELSE IF "SystemExit" \in Bases(e)
    THEN [raised |-> "HTTPInternalServerError", via |-> "SystemExit"]
    ELSE IF {"ClientConnectionResetError", "ClientError"} \cap Bases(e) # {}
    THEN [raised |-> "HTTPClientError", via |-> "ClientError"]
    ELSE IF "Exception" \in Bases(e)
    THEN [raised |-> "HTTPInternalServerError", via |-> "Exception"]
    ELSE [raised |-> e, via |-> "unhandled"]

\* request.match_info.get["archive_hash"]: the exception it raises, or "ok"
MatchInfoLookup(kind) ==
    CASE kind = "bound_method" -> "TypeError"
      [] kind = "mapping_nokey" -> "KeyError"
      [] OTHER -> "ok"

\* StreamReader.at_eof(): feed_eof was called and the buffer is empty
at_eof(r) == eof[r] /\ buffer[r] = <<>>

Min(a, b) == IF a < b THEN a ELSE b

\* the first n bytes of s, and what is left
Take(s, n) == SubSeq(s, 1, Min(n, Len(s)))
Drop(s, n) == SubSeq(s, Min(n, Len(s)) + 1, Len(s))

\* the generator runs when archive awaits its next chunk, or when the event
\* loop's finalizer closes an abandoned generator
Driven(r) ==
    \/ pc[r] = "anext"
    \/ pc[r] = "done" /\ gen[r] \in {"finally", "communicate"}

\* ------------------------------------------------------------------- Init
Init ==
    /\ match_info \in [Requests -> MatchInfoKinds]
    /\ dir_exists \in [Requests -> BOOLEAN]
    /\ pc = [r \in Requests |-> "resolve"]
    /\ gen = [r \in Requests |-> "none"]
    /\ gexc = [r \in Requests |-> "none"]
    /\ proc = [r \in Requests |-> "none"]
    /\ returncode = [r \in Requests |-> None]
    /\ produced = [r \in Requests |-> <<>>]
    /\ buffer = [r \in Requests |-> <<>>]
    /\ eof = [r \in Requests |-> FALSE]
    /\ chunk = [r \in Requests |-> <<>>]
    /\ chunksRead = [r \in Requests |-> <<>>]
    /\ written = [r \in Requests |-> <<>>]
    /\ prepared = [r \in Requests |-> FALSE]
    /\ cancelAt = [r \in Requests |-> "none"]
    /\ outcome = [r \in Requests |-> NoOutcome]
    /\ stderr_fill = [r \in Requests |-> 0]
    /\ stderr_blocked = [r \in Requests |-> FALSE]
    /\ spawns = [r \in Requests |-> 0]
    /\ kills = [r \in Requests |-> 0]
    /\ cleanups = [r \in Requests |-> 0]
    /\ sleeps = [r \in Requests |-> 0]

\* ------------------------------------------------------- archive (relay)
\* lines 38-39: archive_hash = request.match_info.get["archive_hash"]; an
\* exception here is outside every try and leaves archive as it is
Resolve(r) ==
    /\ pc[r] = "resolve"
    /\ IF MatchInfoLookup(match_info[r]) = "ok"
       THEN /\ pc' = [pc EXCEPT ![r] = "validate"]
            /\ UNCHANGED outcome
       ELSE /\ pc' = [pc EXCEPT ![r] = "done"]
            /\ outcome' = [outcome EXCEPT
                 ![r] = [raised |-> MatchInfoLookup(match_info[r]), via |-> "unhandled"]]
    /\ UNCHANGED <<inputVars, counters,
                   gen, gexc, procVars, chunk, chunksRead, written,
                   prepared, cancelAt>>

\* lines 40-47: the existence check, then the response is built and
\* response.prepare(request) is awaited
Validate(r) ==
    /\ pc[r] = "validate"
    /\ IF dir_exists[r]
       THEN /\ pc' = [pc EXCEPT ![r] = "prepare"]
            /\ UNCHANGED outcome
       ELSE /\ pc' = [pc EXCEPT ![r] = "done"]
            /\ outcome' = [outcome EXCEPT
                 ![r] = [raised |-> "HTTPNotFound", via |-> "line42"]]
    /\ UNCHANGED <<inputVars, counters,
                   gen, gexc, procVars, chunk, chunksRead, written,
                   prepared, cancelAt>>

\* line 47 completes: headers are committed; line 50 asks the generator for
\* its first chunk, which runs it up to `await create_subprocess_exec`
PrepareNoCommit(r) ==
    /\ pc[r] = "prepare"
    /\ pc' = [pc EXCEPT ![r] = "anext"]
    /\ gen' = [gen EXCEPT ![r] = "spawn"]
    /\ UNCHANGED <<inputVars, counters,
                   gexc, procVars, chunk, chunksRead, written,
                   prepared, cancelAt, outcome>>

Prepare(r) ==
    /\ pc[r] = "prepare"
    /\ prepared' = [prepared EXCEPT ![r] = TRUE]
    /\ pc' = [pc EXCEPT ![r] = "anext"]
    /\ gen' = [gen EXCEPT ![r] = "spawn"]
    /\ UNCHANGED <<inputVars, counters,
                   gexc, procVars, chunk, chunksRead, written,
                   cancelAt, outcome>>

\* line 51 completes: the chunk is handed to the client; line 52 is awaited
WriteTwice(r) ==
    /\ pc[r] = "write"
    /\ written' = [written EXCEPT ![r] = Append(Append(@, chunk[r]), chunk[r])]
    /\ pc' = [pc EXCEPT ![r] = "sleep"]
    /\ UNCHANGED <<inputVars, counters,
                   gen, gexc, procVars, chunk, chunksRead, prepared,
                   cancelAt, outcome>>

WriteNoSleep(r) ==
    /\ pc[r] = "write"
    /\ written' = [written EXCEPT ![r] = Append(@, chunk[r])]
    /\ pc' = [pc EXCEPT ![r] = "anext"]
    /\ gen' = [gen EXCEPT ![r] = "loop"]
    /\ UNCHANGED <<inputVars, counters,
                   gexc, procVars, chunk, chunksRead, prepared,
                   cancelAt, outcome>>

Write(r) ==
    /\ pc[r] = "write"
    /\ written' = [written EXCEPT ![r] = Append(@, chunk[r])]
    /\ pc' = [pc EXCEPT ![r] = "sleep"]
    /\ UNCHANGED <<inputVars, counters,
                   gen, gexc, procVars, chunk, chunksRead, prepared,
                   cancelAt, outcome>>

\* line 52 completes: the loop asks for the next chunk, resuming the
\* generator after its yield, at the loop test of line 23
Sleep(r) ==
    /\ pc[r] = "sleep"
    /\ pc' = [pc EXCEPT ![r] = "anext"]
    /\ gen' = [gen EXCEPT ![r] = "loop"]
    /\ sleeps' = [sleeps EXCEPT ![r] = @ + 1]
    /\ UNCHANGED <<inputVars, spawns, kills, cleanups,
                   gexc, procVars, chunk, chunksRead, written,
                   prepared, cancelAt, outcome>>

\* line 51 raises e: the except clauses of lines 53-70 classify it and archive
\* raises.  Nothing closes the generator, which stays suspended at its yield.
Fault(r, e) ==
    /\ pc[r] = "write"
    /\ outcome' = [outcome EXCEPT ![r] = Classify(e)]
    /\ pc' = [pc EXCEPT ![r] = "done"]
    /\ UNCHANGED <<inputVars, counters,
                   gen, gexc, procVars, chunk, chunksRead, written,
                   prepared, cancelAt>>

\* ------------------------------------ create_archive_in_chunks (producer)
\* lines 13-20: the child process exists
Spawn(r) ==
    /\ Driven(r)
    /\ gen[r] = "spawn"
    /\ proc' = [proc EXCEPT ![r] = "running"]
    /\ gen' = [gen EXCEPT ![r] = "loop"]
    /\ spawns' = [spawns EXCEPT ![r] = @ + 1]
    /\ UNCHANGED <<inputVars, stderrVars, kills, cleanups, sleeps,
                   pc, gexc, returncode, produced, buffer, eof, chunk,
                   chunksRead, written, prepared, cancelAt, outcome>>

\* line 23: while process.stdout.at_eof()
LoopTestNotEof(r) ==
    /\ Driven(r)
    /\ gen[r] = "loop"
    /\ gen' = [gen EXCEPT ![r] = IF ~at_eof(r) THEN "read" ELSE "finally"]
    /\ UNCHANGED <<inputVars, counters,
                   pc, gexc, procVars, chunk, chunksRead, written,
                   prepared, cancelAt, outcome>>

LoopTest(r) ==
    /\ Driven(r)
    /\ gen[r] = "loop"
    /\ gen' = [gen EXCEPT ![r] = IF at_eof(r) THEN "read" ELSE "finally"]
    /\ UNCHANGED <<inputVars, counters,
                   pc, gexc, procVars, chunk, chunksRead, written,
                   prepared, cancelAt, outcome>>

\* lines 24-26 and 50-51: read(chunk_size) waits while the buffer is empty
\* and no EOF was fed, then takes at most chunk_size bytes; the chunk is
\* yielded to archive, which starts response.write(chunk)
Read(r) ==
    /\ Driven(r)
    /\ gen[r] = "read"
    /\ buffer[r] # <<>> \/ eof[r]
    /\ Len(chunksRead[r]) < MaxChunks
    /\ chunk' = [chunk EXCEPT ![r] = Take(buffer[r], chunk_size)]
    /\ buffer' = [buffer EXCEPT ![r] = Drop(@, chunk_size)]
    /\ chunksRead' = [chunksRead EXCEPT ![r] = Append(@, Take(buffer[r], chunk_size))]
    /\ gen' = [gen EXCEPT ![r] = "yield"]
    /\ pc' = [pc EXCEPT ![r] = "write"]
    /\ UNCHANGED <<inputVars, stderrVars, counters,
                   gexc, proc, returncode, produced, eof, written,
                   prepared, cancelAt, outcome>>

\* the generator is over: archive, if it is the one driving it, gets the
\* exception in flight, or the end of the sequence and returns the response
GenExit(r, e) ==
    /\ gen' = [gen EXCEPT ![r] = "closed"]
    /\ gexc' = [gexc EXCEPT ![r] = "none"]
    /\ IF pc[r] = "anext"
       THEN /\ pc' = [pc EXCEPT ![r] = "done"]
            /\ outcome' = [outcome EXCEPT
                 ![r] = IF e = "none"
                        THEN [raised |-> "none", via |-> "return"]
                        ELSE Classify(e)]
       ELSE UNCHANGED <<pc, outcome>>

\* lines 31-33: if process.returncode is None: process.kill(), then
\* process.communicate() is awaited
FinallyNoAwait(r) ==
    /\ Driven(r)
    /\ gen[r] = "finally"
    /\ cleanups' = [cleanups EXCEPT ![r] = @ + 1]
    /\ IF returncode[r] = None
       THEN /\ proc' = [proc EXCEPT ![r] = "killed"]
            /\ kills' = [kills EXCEPT ![r] = @ + 1]
       ELSE UNCHANGED <<proc, kills>>
    /\ GenExit(r, gexc[r])
    /\ UNCHANGED <<inputVars, stderrVars, spawns, sleeps,
                   returncode, produced, buffer, eof, chunk,
                   chunksRead, written, prepared, cancelAt>>

FinallyKillsAll(r) ==
    /\ Driven(r)
    /\ gen[r] = "finally"
    /\ cleanups' = [cleanups EXCEPT ![r] = @ + 1]
    /\ IF returncode[r] = None
       THEN /\ proc' = [q \in Requests |->
                         IF proc[q] = "running" THEN "killed" ELSE proc[q]]
            /\ kills' = [kills EXCEPT ![r] = @ + 1]
            /\ gen' = [gen EXCEPT ![r] = "communicate"]
            /\ UNCHANGED <<pc, gexc, outcome>>
       ELSE /\ GenExit(r, gexc[r])
            /\ UNCHANGED <<proc, kills>>
    /\ UNCHANGED <<inputVars, stderrVars, spawns, sleeps,
                   returncode, produced, buffer, eof, chunk,
                   chunksRead, written, prepared, cancelAt>>

FinallyAlwaysKills(r) ==
    /\ Driven(r)
    /\ gen[r] = "finally"
    /\ cleanups' = [cleanups EXCEPT ![r] = @ + 1]
    /\ IF TRUE
       THEN /\ proc' = [proc EXCEPT ![r] = "killed"]
            /\ kills' = [kills EXCEPT ![r] = @ + 1]
            /\ gen' = [gen EXCEPT ![r] = "communicate"]
            /\ UNCHANGED <<pc, gexc, outcome>>
       ELSE /\ GenExit(r, gexc[r])
            /\ UNCHANGED <<proc, kills>>
    /\ UNCHANGED <<inputVars, stderrVars, spawns, sleeps,
                   returncode, produced, buffer, eof, chunk,
                   chunksRead, written, prepared, cancelAt>>

FinallyChecksExit(r) ==
    /\ Driven(r)
    /\ gen[r] = "finally"
    /\ cleanups' = [cleanups EXCEPT ![r] = @ + 1]
    /\ IF returncode[r] = None
       THEN /\ proc' = [proc EXCEPT ![r] = "killed"]
            /\ kills' = [kills EXCEPT ![r] = @ + 1]
            /\ gen' = [gen EXCEPT ![r] = "communicate"]
            /\ UNCHANGED <<pc, gexc, outcome>>
       ELSE /\ GenExit(r, IF gexc[r] = "none" /\ returncode[r] # <<0>>
                           THEN "CalledProcessError" ELSE gexc[r])
            /\ UNCHANGED <<proc, kills>>
    /\ UNCHANGED <<inputVars, stderrVars, spawns, sleeps,
                   returncode, produced, buffer, eof, chunk,
                   chunksRead, written, prepared, cancelAt>>

Finally(r) ==
    /\ Driven(r)
    /\ gen[r] = "finally"
    /\ cleanups' = [cleanups EXCEPT ![r] = @ + 1]
    /\ IF returncode[r] = None
       THEN /\ proc' = [proc EXCEPT ![r] = "killed"]
            /\ kills' = [kills EXCEPT ![r] = @ + 1]
            /\ gen' = [gen EXCEPT ![r] = "communicate"]
            /\ UNCHANGED <<pc, gexc, outcome>>
       ELSE /\ GenExit(r, gexc[r])
            /\ UNCHANGED <<proc, kills>>
    /\ UNCHANGED <<inputVars, stderrVars, spawns, sleeps,
                   returncode, produced, buffer, eof, chunk,
                   chunksRead, written, prepared, cancelAt>>

\* line 34 completes: communicate() has read stdout to its end and the
\* child's exit has been collected
Communicate(r) ==
    /\ Driven(r)
    /\ gen[r] = "communicate"
    /\ eof[r]
    /\ returncode[r] # None
    /\ buffer' = [buffer EXCEPT ![r] = <<>>]
    /\ GenExit(r, gexc[r])
    /\ stderr_fill' = [stderr_fill EXCEPT ![r] = 0]
    /\ UNCHANGED <<inputVars, stderr_blocked, counters,
                   proc, returncode, produced, eof, chunk,
                   chunksRead, written, prepared, cancelAt>>

\* the event loop's async-generator finalizer: a generator that archive
\* abandoned at its yield is closed later (aclose), which runs lines 31-34
AgenFinalize(r) ==
    /\ pc[r] = "done"
    /\ gen[r] = "yield"
    /\ gen' = [gen EXCEPT ![r] = "finally"]
    /\ UNCHANGED <<inputVars, counters,
                   pc, gexc, procVars, chunk, chunksRead, written,
                   prepared, cancelAt, outcome>>

\* --------------------------------------------------------- cancellation
\* The task running archive is cancelled (client disconnect, shutdown):
\* CancelledError is raised at the await the task is suspended on.
CancelIgnored(r) ==
    /\ cancelAt[r] = "none"
    /\ pc[r] \in {"write", "sleep"}
    /\ cancelAt' = [cancelAt EXCEPT ![r] = pc[r]]
    /\ UNCHANGED <<inputVars, counters,
                   pc, gen, gexc, outcome, procVars, chunk,
                   chunksRead, written, prepared>>

Cancel(r) ==
    /\ cancelAt[r] = "none"
    /\ \/ \* line 47, outside the try: CancelledError leaves archive as it is
          /\ pc[r] = "prepare"
          /\ cancelAt' = [cancelAt EXCEPT ![r] = "prepare"]
          /\ pc' = [pc EXCEPT ![r] = "done"]
          /\ outcome' = [outcome EXCEPT
               ![r] = [raised |-> "CancelledError", via |-> "unhandled"]]
          /\ UNCHANGED <<gen, gexc>>
       \/ \* line 15, before the generator's try: no process handle exists
          \* yet; the generator ends and line 56 catches the error
          /\ pc[r] = "anext" /\ gen[r] = "spawn"
          /\ cancelAt' = [cancelAt EXCEPT ![r] = "spawn"]
          /\ GenExit(r, "CancelledError")
       \/ \* line 24, waiting for data: lines 28-30 re-raise, finally runs
          /\ pc[r] = "anext" /\ gen[r] = "read"
          /\ buffer[r] = <<>> /\ ~eof[r]
          /\ cancelAt' = [cancelAt EXCEPT ![r] = "read"]
          /\ gen' = [gen EXCEPT ![r] = "finally"]
          /\ gexc' = [gexc EXCEPT ![r] = "CancelledError"]
          /\ UNCHANGED <<pc, outcome>>
       \/ \* lines 51, 52: raised in archive's loop body, caught at line 56;
          \* the generator stays suspended at its yield
          /\ pc[r] \in {"write", "sleep"}
          /\ cancelAt' = [cancelAt EXCEPT ![r] = pc[r]]
          /\ pc' = [pc EXCEPT ![r] = "done"]
          /\ outcome' = [outcome EXCEPT ![r] = Classify("CancelledError")]
          /\ UNCHANGED <<gen, gexc>>
       \/ \* line 34, inside finally: the await is given up
          /\ pc[r] = "anext" /\ gen[r] = "communicate"
          /\ cancelAt' = [cancelAt EXCEPT ![r] = "communicate"]
          /\ GenExit(r, "CancelledError")
    /\ UNCHANGED <<inputVars, counters,
                   procVars, chunk, chunksRead, written, prepared>>

\* ------------------------------------------------- the child process (zip)
\* the child writes one more byte to stdout; the loop feeds it to the reader
ProcWrite(r) ==
    /\ proc[r] = "running"
    /\ ~stderr_blocked[r]
    /\ ~eof[r]
    /\ Len(produced[r]) < MaxBytes
    /\ produced' = [produced EXCEPT ![r] = Append(@, Len(@) + 1)]
    /\ buffer' = [buffer EXCEPT ![r] = Append(@, Len(produced[r]) + 1)]
    /\ UNCHANGED <<inputVars, stderrVars, counters,
                   pc, gen, gexc, proc, returncode, eof, chunk,
                   chunksRead, written, prepared, cancelAt, outcome>>

\* stdout's write end is closed (by the child, or by its death) and the
\* loop feeds EOF to the reader
ProcCloseStdout(r) ==
    /\ proc[r] # "none"
    /\ proc[r] = "running" => ~stderr_blocked[r]
    /\ ~eof[r]
    /\ eof' = [eof EXCEPT ![r] = TRUE]
    /\ UNCHANGED <<inputVars, stderrVars, counters,
                   pc, gen, gexc, proc, returncode, produced, buffer,
                   chunk, chunksRead, written, prepared, cancelAt, outcome>>

\* the child ends by itself and the loop records its exit code
ProcExit(r, code) ==
    /\ proc[r] = "running"
    /\ ~stderr_blocked[r]
    /\ proc' = [proc EXCEPT ![r] = "exited"]
    /\ returncode' = [returncode EXCEPT ![r] = <<code>>]
    /\ UNCHANGED <<inputVars, stderrVars, counters,
                   pc, gen, gexc, produced, buffer, eof, chunk,
                   chunksRead, written, prepared, cancelAt, outcome>>

\* the child writes one more byte to stderr (line 18 makes it a pipe), which
\* nothing reads before communicate(); when the pipe and the reader's buffer
\* are full the write blocks, and the child does nothing else until it dies
ProcWriteStderr(r) ==
    /\ proc[r] = "running"
    /\ ~stderr_blocked[r]
    /\ IF stderr_fill[r] < StderrCapacity
       THEN /\ stderr_fill' = [stderr_fill EXCEPT ![r] = @ + 1]
            /\ UNCHANGED stderr_blocked
       ELSE /\ stderr_blocked' = [stderr_blocked EXCEPT ![r] = TRUE]
            /\ UNCHANGED stderr_fill
    /\ UNCHANGED <<inputVars, counters, pc, gen, gexc, proc, returncode, produced,
                   buffer, eof, chunk, chunksRead, written, prepared, cancelAt,
                   outcome>>

\* the killed child dies and the loop records -SIGKILL
ProcReap(r) ==
    /\ proc[r] = "killed"
    /\ proc' = [proc EXCEPT ![r] = "exited"]
    /\ returncode' = [returncode EXCEPT ![r] = <<-9>>]
    /\ UNCHANGED <<inputVars, stderrVars, counters,
                   pc, gen, gexc, produced, buffer, eof, chunk,
                   chunksRead, written, prepared, cancelAt, outcome>>

\* ------------------------------------------------------------------- Next
Next ==
    \E r \in Requests :
        \/ Resolve(r)
        \/ Validate(r)
        \/ Prepare(r)
        \/ Spawn(r)
        \/ LoopTest(r)
        \/ Read(r)
        \/ Write(r)
        \/ Sleep(r)
        \/ \E e \in WriteFaults : Fault(r, e)
        \/ Finally(r)
        \/ Communicate(r)
        \/ AgenFinalize(r)
        \/ Cancel(r)
        \/ ProcWrite(r)
        \/ ProcWriteStderr(r)
        \/ ProcCloseStdout(r)
        \/ \E code \in ExitCodes : ProcExit(r, code)
        \/ ProcReap(r)

Spec == Init /\ [][Next]_vars

\* ================================================================ claims
Done(r) == pc[r] = "done"

IsPrefix(a, b) == Len(a) <= Len(b) /\ SubSeq(b, 1, Len(a)) = a

RECURSIVE Concat(_)
Concat(chunks) ==
    IF chunks = <<>> THEN <<>> ELSE Head(chunks) \o Concat(Tail(chunks))

\* the outcomes the handler classifies: the returned response, the 404 of
\* line 42 and the four HTTP errors of lines 53-70
ClassifiedOutcomes ==
    {[raised |-> "none", via |-> "return"],
     [raised |-> "HTTPNotFound", via |-> "line42"],
     [raised |-> "HTTPBadRequest", via |-> "IndexError"],
     [raised |-> "HTTPInternalServerError", via |-> "CancelledError"],
     [raised |-> "HTTPInternalServerError", via |-> "SystemExit"],
     [raised |-> "HTTPClientError", via |-> "ClientError"],
     [raised |-> "HTTPInternalServerError", via |-> "Exception"]}

\* C1: when the task was cancelled at one of the three suspension points of
\* a live session (awaiting the next chunk, response.write, the pacing
\* sleep), the handler has not finished while its subprocess's exit is still
\* uncollected.
C1_CancelledHandlerLeavesNoProcess ==
    \A r \in Requests :
        (Done(r) /\ cancelAt[r] \in {"read", "write", "sleep"})
            => returncode[r] # None

\* C2: when response.write raised a non-cancellation exception, the
\* producer's cleanup is over (the generator is closed and the subprocess's
\* exit collected) once archive has raised the classified HTTP error.
C2_CleanupBeforeClassifiedError ==
    \A r \in Requests :
        (Done(r) /\ outcome[r].via \in {"IndexError", "SystemExit", "ClientError", "Exception"})
            => (gen[r] = "closed" /\ returncode[r] # None)

\* C3: when archive has returned the response after the chunk sequence ended
\* by exhaustion, the subprocess has exited and its exit has been collected.
C3_NoLeakOnExhaustion ==
    \A r \in Requests :
        (Done(r) /\ outcome[r].via = "return")
            => (proc[r] = "exited" /\ returncode[r] # None /\ gen[r] = "closed")

\* C3 witness: a response was returned for a session whose subprocess was
\* still running at the end of the sequence and was killed by the cleanup.
C3_Witness ==
    \E r \in Requests :
        Done(r) /\ outcome[r].via = "return" /\ returncode[r] = <<-9>>

\* C4: for a request whose directory does not exist, no subprocess is ever
\* spawned, no response is ever prepared, and archive ends with HTTPNotFound.
C4_MissingDirectoryIsNotFound ==
    \A r \in Requests :
        ~dir_exists[r] =>
            /\ proc[r] = "none"
            /\ ~prepared[r]
            /\ Done(r) => outcome[r].raised = "HTTPNotFound"

\* C5: when archive has returned the response, the concatenation of the
\* chunks written to it is the byte stream the subprocess wrote to stdout.
C5_DeliveredEqualsProduced ==
    \A r \in Requests :
        (Done(r) /\ outcome[r].via = "return")
            => Concat(written[r]) = produced[r]

\* C6: once the subprocess's stdout is at end of stream (EOF fed, buffer
\* drained), the producer yields no further chunk.
C6_NoChunkAfterEndOfStream ==
    [][\A r \in Requests : at_eof(r) => chunksRead'[r] = chunksRead[r]]_vars

\* C7: a request whose archive_hash lookup fails ends with HTTPBadRequest.
C7_AddressingFaultIsBadRequest ==
    \A r \in Requests :
        (Done(r) /\ MatchInfoLookup(match_info[r]) # "ok")
            => outcome[r].raised = "HTTPBadRequest"

\* C8: a request has no outcome until it ends, and then it has exactly one,
\* which is the returned response or one of the classified errors; a fault
\* of the streaming phase gets the class of the first clause that matches it
\* in the order bad request, aborted, client error, internal error.
C8_ExactlyOneClassifiedOutcome ==
    \A r \in Requests :
        /\ ~Done(r) => outcome[r] = NoOutcome
        /\ Done(r) => outcome[r] \in ClassifiedOutcomes

\* C9: the chunks written to the client are a prefix of the chunks read from
\* the subprocess, in the same order, and at most one chunk that was read is
\* not yet written.
C9_WrittenPrefixOfRead ==
    \A r \in Requests :
        /\ IsPrefix(written[r], chunksRead[r])
        /\ Len(chunksRead[r]) - Len(written[r]) <= 1
        /\ Len(chunksRead[r]) > Len(written[r])
              => chunk[r] = chunksRead[r][Len(chunksRead[r])]

\* C9 witness: a session has written two chunks to its client.
C9_Witness ==
    \E r \in Requests : Len(written[r]) >= 2 /\ Len(chunksRead[r]) >= 2

\* C10: every chunk the producer yields has between 1 and chunk_size bytes,
\* and every chunk but the last has exactly chunk_size bytes.
C10_ChunkLengths ==
    \A r \in Requests :
        \A i \in 1..Len(chunksRead[r]) :
            /\ Len(chunksRead[r][i]) >= 1
            /\ Len(chunksRead[r][i]) <= chunk_size
            /\ i < Len(chunksRead[r]) => Len(chunksRead[r][i]) = chunk_size

\* everything that belongs to the session of request r
Session(r) ==
    <<pc[r], gen[r], gexc[r], proc[r], returncode[r], produced[r], buffer[r],
      eof[r], chunk[r], chunksRead[r], written[r], prepared[r], cancelAt[r],
      outcome[r], stderr_fill[r], stderr_blocked[r], spawns[r], kills[r],
      cleanups[r], sleeps[r]>>

\* C11: a step of one request's session (a chunk read or written, a kill, a
\* cancellation, a fault, a completion) changes nothing of another request's
\* session, and a chunk written to a response is the chunk last read from
\* that same session's subprocess.
C11_SessionsIndependent ==
    [][\A r \in Requests :
          /\ Session(r)' # Session(r)
                => \A q \in Requests \ {r} : Session(q)' = Session(q)
          /\ written'[r] # written[r]
                => written'[r] = Append(written[r], chunksRead[r][Len(chunksRead[r])])
      ]_vars

\* C11 witness: one session's subprocess was killed by its teardown while
\* another session's subprocess keeps running and that session has written.
C11_Witness ==
    \E r \in Requests : \E q \in Requests \ {r} :
        /\ returncode[r] = <<-9>>
        /\ proc[q] = "running"
        /\ Len(written[q]) >= 1

\* C12: once the cancellation of a request's task has been delivered, no
\* chunk is written to that request's response any more.
C12_NoWriteAfterCancel ==
    [][\A r \in Requests : cancelAt[r] # "none" => written'[r] = written[r]]_vars

\* C12 witness: a session was cancelled during the pacing sleep after it had
\* written a chunk and while a further chunk could still have been read.
C12_Witness ==
    \E r \in Requests :
        /\ cancelAt[r] = "sleep"
        /\ Len(written[r]) = 1
        /\ at_eof(r)

\* C13: a subprocess exists only after validation succeeded and the headers
\* were committed, and chunks are read and written only with a subprocess
\* and committed headers.
C13_StepOrder ==
    \A r \in Requests :
        /\ prepared[r] => (MatchInfoLookup(match_info[r]) = "ok" /\ dir_exists[r])
        /\ gen[r] # "none" => prepared[r]
        /\ proc[r] # "none" => prepared[r]
        /\ chunksRead[r] # <<>> => (proc[r] # "none" /\ prepared[r])
        /\ written[r] # <<>> => chunksRead[r] # <<>>

\* C13 witness: a request went through validation, header commit and spawn
\* and has written a chunk.
C13_Witness ==
    \E r \in Requests :
        dir_exists[r] /\ prepared[r] /\ proc[r] # "none" /\ written[r] # <<>>

C15_OneSleepPerWrite ==
    \A r \in Requests :
        /\ sleeps[r] <= Len(written[r])
        /\ Len(written[r]) <= sleeps[r] + 1
        /\ pc[r] \in {"anext", "write"} => sleeps[r] = Len(written[r])
        /\ pc[r] = "sleep" => Len(written[r]) = sleeps[r] + 1

\* C15 witness: two chunks were written, each followed by its sleep, and the
\* next chunk is being requested.
C15_Witness ==
    \E r \in Requests :
        pc[r] = "anext" /\ Len(written[r]) = 2 /\ sleeps[r] = 2

\* C16: when the generator ends with no exception in flight and the task was
\* not cancelled, archive returns the response, whatever the subprocess's
\* exit code is and whatever it wrote to stderr.
C16_ExitCodeNotInspected ==
    [][\A r \in Requests :
          (pc[r] = "anext" /\ pc'[r] = "done" /\ gexc[r] = "none"
             /\ cancelAt'[r] = "none")
             => outcome'[r] = [raised |-> "none", via |-> "return"]]_vars

\* C16 witness: archive returned the response of a session whose subprocess
\* had exited with a non-zero code after writing to stderr.
C16_Witness ==
    \E r \in Requests :
        /\ Done(r) /\ outcome[r].via = "return"
        /\ returncode[r] = <<12>>
        /\ stderr_fill[r] >= 1
        /\ eof[r]
        /\ kills[r] = 0

\* the child of r is blocked in a write to its full stderr
StderrBlocked(r) == proc[r] = "running" /\ stderr_blocked[r]

\* the generator of r waits in read() for stdout data or EOF
WaitingForStdout(r) ==
    pc[r] = "anext" /\ gen[r] = "read" /\ buffer[r] = <<>> /\ ~eof[r]

\* C17: no session is in the deadlock where the subprocess is blocked on its
\* full stderr while the relay waits for stdout.
C17_NoStderrDeadlock ==
    \A r \in Requests : ~(StderrBlocked(r) /\ WaitingForStdout(r))

\* C17 witness: a subprocess that had filled stderr was killed and collected
\* by the cleanup, and the session is over.
C17_Witness ==
    \E r \in Requests :
        /\ stderr_blocked[r]
        /\ gen[r] = "closed" /\ returncode[r] = <<-9>> /\ Done(r)

\* ------------------------------------------------------------ type check
TypeOK ==
    /\ pc \in [Requests -> {"resolve", "validate", "prepare", "anext",
                            "write", "sleep", "done"}]
    /\ gen \in [Requests -> {"none", "spawn", "loop", "read", "yield", "finally",
                             "communicate", "closed"}]
    /\ proc \in [Requests -> {"none", "running", "killed", "exited"}]
    /\ \A r \in Requests :
         /\ (returncode[r] = None) = (proc[r] # "exited")
         /\ Len(produced[r]) <= MaxBytes
         /\ Len(chunksRead[r]) <= MaxChunks
         /\ stderr_fill[r] \in 0..StderrCapacity
         /\ stderr_blocked[r] \in BOOLEAN
====
